---------------------------- MODULE Spec2Model ----------------------------
(***************************************************************************)
(* Model of function_app.py: the HTTP-triggered function `scrape`, which   *)
(* reads a JSON request, drives a headless browser through the SSA         *)
(* longevity form, locates the results table in the returned HTML and      *)
(* turns its rows into {"initial": point, "future": [point, ...]}, and the *)
(* helper parse_age_string.                                                *)
(*                                                                         *)
(* Text is modelled as a sequence of one-character strings, so that the    *)
(* regular expressions, str(), int() and float() of the source are         *)
(* computed character by character.  A Python float is modelled exactly,   *)
(* as an integer count of 1/Scale units (Scale is a multiple of 12, so     *)
(* X + Y/12.0 is exact), or as nan / inf / -inf; binary rounding is not    *)
(* modelled.                                                               *)
(***************************************************************************)
EXTENDS Integers, Sequences, FiniteSets, TLC

(***************************************************************************)
(* Bounds of the model.                                                    *)
(***************************************************************************)
\* digits after the decimal point that a modelled float keeps exactly
FracDigits == 1
\* data rows (after the header row) of an enumerated results table
MaxRows == 3
\* tables of an enumerated multi-table document
MaxTables == 3
\* concurrent invocations of scrape
NumRuns == 2
\* characters of an enumerated age cell
MaxAgeLen == 5

(***************************************************************************)
(* Characters and Python text primitives.                                  *)
(***************************************************************************)
DigitChars == <<"0", "1", "2", "3", "4", "5", "6", "7", "8", "9">>

LowerChars ==
    <<"a", "b", "c", "d", "e", "f", "g", "h", "i", "j", "k", "l", "m",
      "n", "o", "p", "q", "r", "s", "t", "u", "v", "w", "x", "y", "z">>

UpperChars ==
    <<"A", "B", "C", "D", "E", "F", "G", "H", "I", "J", "K", "L", "M",
      "N", "O", "P", "Q", "R", "S", "T", "U", "V", "W", "X", "Y", "Z">>

Range(f) == {f[i] : i \in DOMAIN f}

IsDigit(c) == c \in Range(DigitChars)

\* the character class [a-zA-Z] of line 19
IsLetter(c) == c \in Range(LowerChars) \cup Range(UpperChars)

IsSpace(c) == c = " "

DigitVal(c) == (CHOOSE i \in DOMAIN DigitChars : DigitChars[i] = c) - 1

LowerOf(c) ==
    IF c \in Range(UpperChars)
    THEN LowerChars[CHOOSE i \in DOMAIN UpperChars : UpperChars[i] = c]
    ELSE c

\* str.lower()
Lower(s) == [i \in DOMAIN s |-> LowerOf(s[i])]

RECURSIVE LStrip(_)
LStrip(s) ==
    IF s # <<>> /\ IsSpace(Head(s)) THEN LStrip(Tail(s)) ELSE s

RECURSIVE RStrip(_)
RStrip(s) ==
    IF s # <<>> /\ IsSpace(s[Len(s)]) THEN RStrip(SubSeq(s, 1, Len(s) - 1)) ELSE s

\* str.strip()
Strip(s) == RStrip(LStrip(s))

RECURSIVE Concat(_)
\* "".join(parts)
Concat(parts) ==
    IF parts = <<>> THEN <<>> ELSE Head(parts) \o Concat(Tail(parts))

\* sub in s  (Python substring test)
Contains(s, sub) ==
    \E i \in 1..(Len(s) - Len(sub) + 1) : SubSeq(s, i, i + Len(sub) - 1) = sub

RECURSIVE Pow10(_)
Pow10(n) == IF n = 0 THEN 1 ELSE 10 * Pow10(n - 1)

RECURSIVE DigitsVal(_)
\* the natural number written by a sequence of digits ("" is 0)
DigitsVal(s) ==
    IF s = <<>> THEN 0 ELSE 10 * DigitsVal(SubSeq(s, 1, Len(s) - 1)) + DigitVal(s[Len(s)])

AllDigits(s) == \A i \in DOMAIN s : IsDigit(s[i])

RECURSIVE NatStr(_)
NatStr(n) ==
    IF n < 10 THEN <<DigitChars[n + 1]>> ELSE NatStr(n \div 10) \o <<DigitChars[(n % 10) + 1]>>

\* str(n) of a Python int
IntStr(n) == IF n < 0 THEN <<"-">> \o NatStr(-n) ELSE NatStr(n)

\* the text left after one optional leading sign
Unsigned(s) == IF s # <<>> /\ Head(s) \in {"+", "-"} THEN Tail(s) ELSE s

SignOf(s) == IF s # <<>> /\ Head(s) = "-" THEN -1 ELSE 1

(***************************************************************************)
(* int(text): surrounding whitespace, one optional sign, decimal digits.   *)
(* Anything else raises ValueError (ok = FALSE).                           *)
(***************************************************************************)
PyInt(s) ==
    LET t == Strip(s)
        d == Unsigned(t)
    IN  IF d # <<>> /\ AllDigits(d)
        THEN [ok |-> TRUE, val |-> SignOf(t) * DigitsVal(d)]
        ELSE [ok |-> FALSE, val |-> 0]

(***************************************************************************)
(* Python floats.                                                          *)
(***************************************************************************)
Scale == 12 * Pow10(FracDigits)

Fin(v) == [k |-> "fin", v |-> v]
NaN == [k |-> "nan", v |-> 0]
Inf(sign) == [k |-> "inf", v |-> sign]

\* a / 12.0 and a + b on finite values
DivTwelve(x) == Fin(x.v \div 12)
Plus(x, y) == Fin(x.v + y.v)

DotPos(s) == IF \E i \in DOMAIN s : s[i] = "." THEN CHOOSE i \in DOMAIN s : s[i] = "." /\ \A j \in 1..(i - 1) : s[j] # "." ELSE Len(s) + 1

\* digits, optionally with one decimal point, at least one digit in all
IsDecimal(s) ==
    /\ \E i \in DOMAIN s : IsDigit(s[i])
    /\ \A i \in DOMAIN s : IsDigit(s[i]) \/ s[i] = "."
    /\ Cardinality({i \in DOMAIN s : s[i] = "."}) <= 1

DecimalVal(s) ==
    LET p == DotPos(s)
        ip == SubSeq(s, 1, p - 1)
        fp == SubSeq(s, p + 1, Len(s))
    IN  DigitsVal(ip) * Scale + (DigitsVal(fp) * Scale) \div Pow10(Len(fp))

(***************************************************************************)
(* float(text): surrounding whitespace, one optional sign, then a decimal  *)
(* number or nan / inf / infinity in any letter case.  Anything else       *)
(* raises ValueError (ok = FALSE).  Exponent and underscore forms are not  *)
(* modelled; no modelled cell text uses them.                              *)
(***************************************************************************)
PyFloat(s) ==
    LET t == Strip(s)
        d == Lower(Unsigned(t))
    IN  CASE IsDecimal(d) -> [ok |-> TRUE, val |-> Fin(SignOf(t) * DecimalVal(d))]
          [] d = <<"n", "a", "n">> -> [ok |-> TRUE, val |-> NaN]
          [] d \in {<<"i", "n", "f">>, <<"i", "n", "f", "i", "n", "i", "t", "y">>} ->
                [ok |-> TRUE, val |-> Inf(SignOf(t))]
          [] OTHER -> [ok |-> FALSE, val |-> NaN]

(***************************************************************************)
(* parse_age_string.                                                       *)
(***************************************************************************)
\* re.sub(r'[a-zA-Z]', '', age_str)
RemoveLetters(s) == SelectSeq(s, LAMBDA c : ~IsLetter(c))

RECURSIVE SkipDigits(_, _)
\* the first position from i on that holds no digit
SkipDigits(s, i) ==
    IF i <= Len(s) /\ IsDigit(s[i]) THEN SkipDigits(s, i + 1) ELSE i

RECURSIVE FindNumbersFrom(_, _)
FindNumbersFrom(s, i) ==
    IF i > Len(s) THEN <<>>
    ELSE IF ~IsDigit(s[i]) THEN FindNumbersFrom(s, i + 1)
    ELSE LET j == SkipDigits(s, i)
             k == IF j <= Len(s) /\ s[j] = "." THEN SkipDigits(s, j + 1) ELSE j
         IN  <<SubSeq(s, i, k - 1)>> \o FindNumbersFrom(s, k)

\* re.findall(r'(\d+\.?\d*)', cleaned_str): leftmost, greedy, non-overlapping
FindNumbers(s) == FindNumbersFrom(s, 1)

NoAge == [ok |-> FALSE, val |-> NaN]

parse_age_string_whole(age_str) ==
    LET cleaned_str == Strip(RemoveLetters(age_str))
        parts == FindNumbers(cleaned_str)
    IN  CASE Len(parts) = 2 ->
                [ok |-> TRUE, val |-> Plus(PyFloat(parts[1]).val, DivTwelve(PyFloat(parts[2]).val))]
          [] Len(parts) = 1 -> [ok |-> TRUE, val |-> PyFloat(cleaned_str).val]
          [] OTHER -> NoAge

parse_age_string_many(age_str) ==
    LET cleaned_str == Strip(RemoveLetters(age_str))
        parts == FindNumbers(cleaned_str)
    IN  CASE Len(parts) >= 2 ->
                [ok |-> TRUE, val |-> Plus(PyFloat(parts[1]).val, DivTwelve(PyFloat(parts[2]).val))]
          [] Len(parts) = 1 -> [ok |-> TRUE, val |-> PyFloat(parts[1]).val]
          [] OTHER -> NoAge

\* lines 13-28; ok = FALSE stands for the return value None
parse_age_string(age_str) ==
    LET cleaned_str == Strip(RemoveLetters(age_str))
        parts == FindNumbers(cleaned_str)
    IN  CASE Len(parts) = 2 ->
                [ok |-> TRUE, val |-> Plus(PyFloat(parts[1]).val, DivTwelve(PyFloat(parts[2]).val))]
          [] Len(parts) = 1 -> [ok |-> TRUE, val |-> PyFloat(parts[1]).val]
          [] OTHER -> NoAge

(***************************************************************************)
(* Texts used by the requests and pages the model enumerates.              *)
(***************************************************************************)
T_None == <<"N", "o", "n", "e">>
T_AtAge == <<"A", "t", " ", "A", "g", "e">>
T_Additional == <<"A", "d", "d", "i", "t", "i", "o", "n", "a", "l">>
T_Total == <<"T", "o", "t", "a", "l">>
T_Home == <<"H", "o", "m", "e">>
T_Note == <<"N", "o", "t", "e">>
T_62 == <<"6", "2">>
T_62and4 == <<"6", "2", " ", "a", "n", "d", " ", "4", " ", "m", "o", "n", "t", "h", "s">>
T_70b == <<"7", "0", "b">>
T_na == <<"n", "/", "a">>
T_123 == <<"1", " ", "2", " ", "3">>
T_61 == <<"6", "1">>
T_20_5 == <<" ", "2", "0", ".", "5", " ">>
T_82_5 == <<"8", "2", ".", "5">>
T_15_1 == <<"1", "5", ".", "1">>
T_85_1 == <<"8", "5", ".", "1">>
T_x == <<"x">>
T_neg == <<"-", "1", ".", "5">>
T_nan == <<"n", "a", "n">>
T_abc == <<"a", "b", "c">>
T_3 == <<"3">>
T_3_0 == <<"3", ".", "0">>
T_f == <<"f">>
T_m == <<"m">>

(***************************************************************************)
(* Exceptions and HTTP responses.  The text of an exception, str(e), is a  *)
(* sequence of text segments.                                              *)
(***************************************************************************)
NoExc == [type |-> "none", text |-> <<>>]

Exc(type, text) == [type |-> type, text |-> text]

\* float() on a text it cannot convert
FloatError(s) == Exc("ValueError", <<"could not convert string to float: '">> \o s \o <<"'">>)

\* lines 113-114
TableNotFound ==
    Exc("ValueError", <<"Could not find the results table on the SSA page. The page structure may have changed.">>)

\* lines 138-139
NoInitial ==
    Exc("ValueError", <<"Failed to parse initial life expectancy data from the table.">>)

\* json.dumps of a float: a number, or the tokens NaN, Infinity, -Infinity
JsonFloat(x) ==
    CASE x.k = "fin" -> [json |-> "number", v |-> x.v]
      [] x.k = "nan" -> [json |-> "NaN", v |-> 0]
      [] OTHER -> [json |-> IF x.v > 0 THEN "Infinity" ELSE "-Infinity", v |-> 0]

JsonPoint(p) ==
    [atAge |-> JsonFloat(p.atAge),
     additionalLE |-> JsonFloat(p.additionalLE),
     totalLE |-> JsonFloat(p.totalLE)]

\* json.dumps(data) of line 143
JsonData(d) ==
    [initial |-> IF d.initial = <<>> THEN <<>> ELSE JsonPoint(d.initial),
     future |-> [i \in DOMAIN d.future |-> JsonPoint(d.future[i])]]

HttpResponse(body, status_code) ==
    [body |-> body, mimetype |-> "application/json", status_code |-> status_code]

\* lines 49-53
InvalidBodyResponse ==
    HttpResponse([message |-> <<"Invalid request body. Please pass JSON with month, day, year, and sex.">>], 400)

\* lines 56-60
MissingParamResponse ==
    HttpResponse([message |-> <<"Missing one or more required parameters: month, day, year, sex.">>], 400)

\* lines 142-146
SuccessResponse(d) == HttpResponse(JsonData(d), 200)

ErrorResponseOk(e) ==
    HttpResponse([message |-> <<"An internal error occurred: ">> \o e.text], 200)

\* lines 151-155
ErrorResponse(e) ==
    HttpResponse([message |-> <<"An internal error occurred: ">> \o e.text], 500)

(***************************************************************************)
(* The parsed page: a document is the sequence of its <table> elements in  *)
(* document order, a table the sequence of its <tr> rows, a row the texts  *)
(* of its <th> and of its <td> cells.                                      *)
(***************************************************************************)
Row(th, td) == [th |-> th, td |-> td]

\* row.get_text(): the text of every cell
RowText(row) == Concat(row.th) \o Concat(row.td)

\* table.get_text()
TableText(table) == Concat([i \in DOMAIN table |-> RowText(table[i])])

\* "At Age" in table.get_text()   (line 109)
HasMarker(table) == Contains(TableText(table), T_AtAge)

RECURSIVE LocateFrom(_, _)
LocateFrom(all_tables, i) ==
    IF i > Len(all_tables) THEN 0
    ELSE IF HasMarker(all_tables[i]) THEN i
    ELSE LocateFrom(all_tables, i + 1)

LocateOrFirst(all_tables) ==
    IF LocateFrom(all_tables, 1) = 0 /\ all_tables # <<>> THEN 1 ELSE LocateFrom(all_tables, 1)

RECURSIVE LocateLastFrom(_, _)
LocateLastFrom(all_tables, i) ==
    IF i = 0 THEN 0
    ELSE IF HasMarker(all_tables[i]) THEN i
    ELSE LocateLastFrom(all_tables, i - 1)

LocateLast(all_tables) == LocateLastFrom(all_tables, Len(all_tables))

\* lines 106-111: the index in all_tables of results_table, 0 for None
LocateResultsTable(all_tables) == LocateFrom(all_tables, 1)

(***************************************************************************)
(* Lines 117-136: the loop over rows[1:].                                  *)
(***************************************************************************)
EmptyData == [initial |-> <<>>, future |-> <<>>]

\* line 121
Cols(row) == [j \in DOMAIN row.td |-> Strip(row.td[j])]

Point(age, additional, total) ==
    [atAge |-> age, additionalLE |-> additional, totalLE |-> total]

AddPointAsInitial(data, is_first_row, point) == [data EXCEPT !.initial = point]

\* lines 132-136
AddPoint(data, is_first_row, point) ==
    IF is_first_row
    THEN [data EXCEPT !.initial = point]
    ELSE [data EXCEPT !.future = Append(@, point)]

RECURSIVE ExtractLoopBreak(_, _, _, _)
ExtractLoopBreak(rows, i, data, is_first_row) ==
    IF i > Len(rows) THEN [exc |-> NoExc, data |-> data]
    ELSE LET cols == Cols(rows[i])
         IN  IF Len(cols) # 3 THEN ExtractLoopBreak(rows, i + 1, data, is_first_row)
             ELSE LET parsed_age == parse_age_string(cols[1])
                      additional == PyFloat(cols[2])
                      total == PyFloat(cols[3])
                  IN  IF ~parsed_age.ok THEN [exc |-> NoExc, data |-> data]
                      ELSE IF ~additional.ok THEN [exc |-> FloatError(cols[2]), data |-> data]
                      ELSE IF ~total.ok THEN [exc |-> FloatError(cols[3]), data |-> data]
                      ELSE LET point == Point(parsed_age.val, additional.val, total.val)
                           IN  ExtractLoopBreak(rows, i + 1, AddPoint(data, is_first_row, point), FALSE)

RECURSIVE ExtractLoopFloatFirst(_, _, _, _)
ExtractLoopFloatFirst(rows, i, data, is_first_row) ==
    IF i > Len(rows) THEN [exc |-> NoExc, data |-> data]
    ELSE LET cols == Cols(rows[i])
         IN  IF Len(cols) # 3 THEN ExtractLoopFloatFirst(rows, i + 1, data, is_first_row)
             ELSE LET parsed_age == parse_age_string(cols[1])
                      additional == PyFloat(cols[2])
                      total == PyFloat(cols[3])
                  IN  IF ~additional.ok THEN [exc |-> FloatError(cols[2]), data |-> data]
                      ELSE IF ~total.ok THEN [exc |-> FloatError(cols[3]), data |-> data]
                      ELSE IF ~parsed_age.ok THEN ExtractLoopFloatFirst(rows, i + 1, data, is_first_row)
                      ELSE LET point == Point(parsed_age.val, additional.val, total.val)
                           IN  ExtractLoopFloatFirst(rows, i + 1, AddPoint(data, is_first_row, point), FALSE)

RECURSIVE ExtractLoop(_, _, _, _)
\* lines 120-136; a raised exception ends the loop
ExtractLoop(rows, i, data, is_first_row) ==
    IF i > Len(rows) THEN [exc |-> NoExc, data |-> data]
    ELSE LET cols == Cols(rows[i])
         IN  IF Len(cols) # 3 THEN ExtractLoop(rows, i + 1, data, is_first_row)
             ELSE LET parsed_age == parse_age_string(cols[1])
                      additional == PyFloat(cols[2])
                      total == PyFloat(cols[3])
                  IN  IF ~parsed_age.ok THEN ExtractLoop(rows, i + 1, data, is_first_row)
                      ELSE IF ~additional.ok THEN [exc |-> FloatError(cols[2]), data |-> data]
                      ELSE IF ~total.ok THEN [exc |-> FloatError(cols[3]), data |-> data]
                      ELSE LET point == Point(parsed_age.val, additional.val, total.val)
                           IN  ExtractLoop(rows, i + 1, AddPoint(data, is_first_row, point), FALSE)

ExtractRecordsUnchecked(rows) == ExtractLoop(rows, 2, EmptyData, TRUE)

ExtractRecordsPartial(rows) ==
    LET r == ExtractLoop(rows, 2, EmptyData, TRUE)
    IN  IF r.data.initial = <<>> THEN [exc |-> NoInitial, data |-> r.data]
        ELSE [exc |-> NoExc, data |-> r.data]

\* lines 117-139: the loop, then the check that "initial" was filled
ExtractRecords(rows) ==
    LET r == ExtractLoop(rows, 2, EmptyData, TRUE)
    IN  IF r.exc # NoExc THEN r
        ELSE IF r.data.initial = <<>> THEN [exc |-> NoInitial, data |-> r.data]
        ELSE r

(***************************************************************************)
(* The request: req.get_json() raises ValueError on a body that is not     *)
(* JSON ("text"); a JSON body that is no object ("array") has no .get and  *)
(* raises AttributeError; an object maps the four keys to a value, Absent  *)
(* when the key is missing.                                                *)
(***************************************************************************)
PyNone == [t |-> "none", n |-> 0, s |-> <<>>]
PyIntVal(n) == [t |-> "int", n |-> n, s |-> <<>>]
PyStrVal(s) == [t |-> "str", n |-> 0, s |-> s]
Absent == [t |-> "absent", n |-> 0, s |-> <<>>]

Keys == {"month", "day", "year", "sex"}

TextBody == [kind |-> "text", fields |-> [k \in Keys |-> Absent]]
ArrayBody == [kind |-> "array", fields |-> [k \in Keys |-> Absent]]
ObjectBody(month, day, year, sex) ==
    [kind |-> "object",
     fields |-> [k \in Keys |-> CASE k = "month" -> month [] k = "day" -> day
                                  [] k = "year" -> year [] OTHER -> sex]]

\* req_body.get(key): None when the key is missing
Get(req_body, key) ==
    IF req_body.fields[key].t = "absent" THEN PyNone ELSE req_body.fields[key]

\* str(value)
PyStr(v) ==
    CASE v.t = "none" -> T_None
      [] v.t = "int" -> IntStr(v.n)
      [] OTHER -> v.s

NoLocals ==
    [month_from_react |-> <<>>, day |-> <<>>, year |-> <<>>, sex |-> <<>>,
     month_for_ssa |-> <<>>]

\* lines 44-47
ReadFields(req_body) ==
    [month_from_react |-> PyStr(Get(req_body, "month")),
     day |-> PyStr(Get(req_body, "day")),
     year |-> PyStr(Get(req_body, "year")),
     sex |-> PyStr(Get(req_body, "sex")),
     month_for_ssa |-> <<>>]

AllPresentAny(l) ==
    l.month_from_react # <<>> \/ l.day # <<>> \/ l.year # <<>> \/ l.sex # <<>>

\* line 55: all([month_from_react, day, year, sex]); a text is false when empty
AllPresent(l) ==
    l.month_from_react # <<>> /\ l.day # <<>> /\ l.year # <<>> /\ l.sex # <<>>

MonthUnchanged(month_from_react) == IntStr(PyInt(month_from_react).val)

\* line 62, when int() accepts the text
MonthForSsa(month_from_react) == IntStr(PyInt(month_from_react).val - 1)

\* int() on a text it cannot convert (line 62, outside every try)
IntError(s) ==
    Exc("ValueError", <<"invalid literal for int() with base 10: '">> \o s \o <<"'">>)

(***************************************************************************)
(* Lines 69-94: the calls on the page, in program order.                   *)
(***************************************************************************)
SexControl == "select[name=\"sex\"]"
MonthControl == "select[name=\"monthofbirth\"]"
DayControl == "select[name=\"dayofbirth\"]"
YearControl == "select[name=\"yearofbirth\"]"
SubmitControl == "input[type=\"submit\"][value=\"Submit\"]"
Controls == {SexControl, MonthControl, DayControl, YearControl}

Call(op, target, arg, timeout) ==
    [op |-> op, target |-> target, arg |-> arg, timeout |-> timeout]

ScriptDayBeforeMonth(l) ==
    << Call("goto", "https://www.ssa.gov/cgi-bin/longevity.cgi", <<>>, 60000),
       Call("wait_for_selector", SexControl, <<>>, 30000),
       Call("select_option", SexControl, l.sex, 30000),
       Call("wait_for_selector", DayControl, <<>>, 30000),
       Call("select_option", DayControl, l.day, 30000),
       Call("wait_for_timeout", "", <<>>, 500),
       Call("wait_for_selector", MonthControl, <<>>, 30000),
       Call("select_option", MonthControl, l.month_for_ssa, 30000),
       Call("wait_for_selector", YearControl, <<>>, 30000),
       Call("select_option", YearControl, l.year, 30000),
       Call("click", SubmitControl, <<>>, 30000),
       Call("wait_for_load_state", "networkidle", <<>>, 60000) >>

ScriptWaitsForSex(l) ==
    << Call("goto", "https://www.ssa.gov/cgi-bin/longevity.cgi", <<>>, 60000),
       Call("wait_for_selector", SexControl, <<>>, 30000),
       Call("select_option", SexControl, l.sex, 30000),
       Call("wait_for_selector", MonthControl, <<>>, 30000),
       Call("select_option", MonthControl, l.month_for_ssa, 30000),
       Call("wait_for_timeout", "", <<>>, 500),
       Call("wait_for_selector", SexControl, <<>>, 30000),
       Call("select_option", DayControl, l.day, 30000),
       Call("wait_for_selector", YearControl, <<>>, 30000),
       Call("select_option", YearControl, l.year, 30000),
       Call("click", SubmitControl, <<>>, 30000),
       Call("wait_for_load_state", "networkidle", <<>>, 60000) >>

Script(l) ==
    << Call("goto", "https://www.ssa.gov/cgi-bin/longevity.cgi", <<>>, 60000),
       Call("wait_for_selector", SexControl, <<>>, 30000),
       Call("select_option", SexControl, l.sex, 30000),
       Call("wait_for_selector", MonthControl, <<>>, 30000),
       Call("select_option", MonthControl, l.month_for_ssa, 30000),
       Call("wait_for_timeout", "", <<>>, 500),
       Call("wait_for_selector", DayControl, <<>>, 30000),
       Call("select_option", DayControl, l.day, 30000),
       Call("wait_for_selector", YearControl, <<>>, 30000),
       Call("select_option", YearControl, l.year, 30000),
       Call("click", SubmitControl, <<>>, 30000),
       Call("wait_for_load_state", "networkidle", <<>>, 60000) >>

(***************************************************************************)
(* What the browser library raises when a call does not complete: a        *)
(* timeout naming the call and what it waited for, or an error saying the  *)
(* page, context or browser is gone, which names the call only.  A call    *)
(* given no timeout in the source runs under the library's default         *)
(* (30000 ms); wait_for_timeout is a plain sleep and does not time out.    *)
(***************************************************************************)
TimeoutError(call) ==
    Exc("TimeoutError", <<call.op, ": Timeout exceeded waiting for ", call.target>>)

TargetClosed(call) ==
    Exc("Error", <<call.op, ": Target page, context or browser has been closed">>)

CallErrors(call) ==
    {TargetClosed(call)}
        \cup (IF call.timeout = 0 \/ call.op = "wait_for_timeout" THEN {} ELSE {TimeoutError(call)})

\* the errors of a call among those the environment produces
Failures(call, errs) == CallErrors(call) \cap errs

\* the library calls of lines 66-68 and 97-98
StartCall == Call("sync_playwright", "", <<>>, 0)
LaunchCall == Call("launch", "chromium", <<>>, 30000)
NewPageCall == Call("new_page", "", <<>>, 0)
ContentCall == Call("content", "", <<>>, 0)
CloseCall == Call("close", "", <<>>, 0)

(***************************************************************************)
(* Browser sessions.  A session is one launched browser with its page: the *)
(* form values selected so far, the calls the page received, the document  *)
(* it shows.  `released` counts how many times the browser was closed.     *)
(***************************************************************************)
NoDoc == <<>>

Unused ==
    [owner |-> 0, open |-> FALSE, released |-> 0, pages |-> 0,
     form |-> [c \in Controls |-> <<>>], waited |-> {}, calls |-> <<>>,
     loaded |-> FALSE, submitted |-> FALSE, doc |-> NoDoc]

\* p.chromium.launch(): a browser of the run's own
NewSession(r) == [Unused EXCEPT !.owner = r, !.open = TRUE]

Runs == 1..NumRuns

SharedBrowserId(sess) == 1

\* line 67: every launch starts a new browser process
NewBrowserId(sess) == CHOOSE id \in Runs : sess[id].owner = 0 /\ \A j \in 1..(id - 1) : sess[j].owner # 0

\* the effect on the page of a call that completes
ApplyCall(s, call, doc) ==
    LET t == [s EXCEPT !.calls = Append(@, call)]
    IN  CASE call.op = "goto" -> [t EXCEPT !.loaded = TRUE]
          [] call.op = "wait_for_selector" -> [t EXCEPT !.waited = @ \cup {call.target}]
          [] call.op = "select_option" -> [t EXCEPT !.form[call.target] = call.arg]
          [] call.op = "click" -> [t EXCEPT !.submitted = TRUE]
          [] call.op = "wait_for_load_state" -> [t EXCEPT !.doc = doc]
          [] OTHER -> t

\* browser.close()
CloseBrowser(s) == [s EXCEPT !.open = FALSE, !.released = @ + 1]

KeepBrowser(s) == s

\* leaving `with sync_playwright()`: the driver stops and ends the browser
\* it launched, if that is still open
StopPlaywright(s) == IF s.open THEN CloseBrowser(s) ELSE s

(***************************************************************************)
(* The inputs the model enumerates.                                        *)
(***************************************************************************)
Months == 1..12

Profile(month) == ObjectBody(PyIntVal(month), PyIntVal(15), PyIntVal(1960), PyStrVal(T_f))

\* the fields of Profile(3), one of them replaced
Defect(key, v) ==
    [kind |-> "object",
     fields |-> [k \in Keys |-> IF k = key THEN v ELSE Profile(3).fields[k]]]

Bodies ==
    {TextBody, ArrayBody}
        \cup {Profile(m) : m \in Months}
        \cup {ObjectBody(PyStrVal(T_3), PyIntVal(1), PyIntVal(2000), PyStrVal(T_m))}
        \cup {Defect(k, v) : k \in Keys, v \in {Absent, PyNone, PyStrVal(<<>>)}}
        \cup {Defect("month", PyStrVal(t)) : t \in {T_abc, T_3_0}}

\* the <tr> rows a results table is built from
HeaderRow == Row(<<T_AtAge, T_Additional, T_Total>>, <<>>)

DataRows ==
    { Row(<<>>, <<T_62, T_20_5, T_82_5>>),
      Row(<<>>, <<T_62and4, T_20_5, T_82_5>>),
      Row(<<>>, <<T_70b, T_15_1, T_85_1>>),
      Row(<<>>, <<T_na, T_20_5, T_82_5>>),
      Row(<<>>, <<T_na, T_x, T_82_5>>),
      Row(<<>>, <<T_123, T_20_5, T_82_5>>),
      Row(<<>>, <<T_Note>>),
      Row(<<>>, <<T_61, T_x, T_82_5>>),
      Row(<<>>, <<T_61, T_20_5, T_x>>),
      Row(<<>>, <<T_neg, T_neg, T_nan>>) }

SeqsUpTo(S, n) == UNION {[1..k -> S] : k \in 0..n}

\* a header row followed by up to MaxRows data rows
ResultTables == {<<HeaderRow>> \o rows : rows \in SeqsUpTo(DataRows, MaxRows)}

NavTable == <<Row(<<>>, <<T_Home>>), Row(<<>>, <<T_62, T_20_5, T_82_5>>)>>

SomeTables ==
    { NavTable,
      <<HeaderRow, Row(<<>>, <<T_62, T_20_5, T_82_5>>)>>,
      <<HeaderRow, Row(<<>>, <<T_70b, T_15_1, T_85_1>>)>> }

\* the documents a result page may hold
Docs == {<<t>> : t \in ResultTables} \cup SeqsUpTo(SomeTables, MaxTables)

\* every error the library may raise in a run
Errors == UNION {CallErrors(c) : c \in Range(Script(NoLocals)) \cup {StartCall, LaunchCall, NewPageCall, ContentCall, CloseCall}}

\* the result pages of the runs that enumerate the requests
PageDocs ==
    SeqsUpTo(SomeTables, 1) \cup {<<<<HeaderRow>> \o rows>> : rows \in SeqsUpTo(DataRows, 1)}

\* the inputs and errors of the runs that interleave
FewErrors == {TargetClosed(Script(NoLocals)[3])}
FewBodies == {Profile(3)}
FewDocs ==
    { <<NavTable>>,
      <<NavTable, <<HeaderRow, Row(<<>>, <<T_62, T_20_5, T_82_5>>)>> >> }

\* the characters of the age cells that are enumerated in full: digits, the
\* decimal point, a blank and a footnote letter
AgeChars == {"6", "2", ".", " ", "b"}

\* every number of the text keeps no more digits after its decimal point than
\* a modelled float holds exactly
Representable(s) ==
    \A n \in Range(FindNumbers(RemoveLetters(s))) : Len(n) - DotPos(n) <= FracDigits

AgeStrings == {s \in SeqsUpTo(AgeChars, MaxAgeLen) : Representable(s)}

\* result pages whose table has one data row, with any age cell
AgeDocs == {<< <<HeaderRow, Row(<<>>, <<s, T_20_5, T_82_5>>)>> >> : s \in AgeStrings}

(***************************************************************************)
(* State.                                                                  *)
(***************************************************************************)
VARIABLES
    pc,             \* where each invocation of scrape stands
    req,            \* its request body
    loc,            \* its locals month_from_react, day, year, sex, month_for_ssa
    pw,             \* its playwright driver: "none", "started", "stopped"
    browser,        \* its browser: a session id, 0 before launch
    page,           \* its page: the id of the session the page belongs to, 0 for none
    step,           \* the next call of Script to make
    sessions,       \* the browser sessions, by id
    content,        \* the captured HTML (line 97)
    results_table,  \* the index of the located table in all_tables, 0 for None
    data,           \* the result being built (line 117)
    exc,            \* the exception being propagated
    failedAt,       \* the position at which it was raised
    uncaught,       \* the exception that left scrape, if one did
    response        \* the responses scrape returned

vars ==
    <<pc, req, loc, pw, browser, page, step, sessions, content, results_table,
      data, exc, failedAt, uncaught, response>>

NoBody == [kind |-> "none", fields |-> [k \in Keys |-> Absent]]

Init ==
    /\ pc = [r \in Runs |-> "idle"]
    /\ req = [r \in Runs |-> NoBody]
    /\ loc = [r \in Runs |-> NoLocals]
    /\ pw = [r \in Runs |-> "none"]
    /\ browser = [r \in Runs |-> 0]
    /\ page = [r \in Runs |-> 0]
    /\ step = [r \in Runs |-> 1]
    /\ sessions = [id \in Runs |-> Unused]
    /\ content = [r \in Runs |-> NoDoc]
    /\ results_table = [r \in Runs |-> 0]
    /\ data = [r \in Runs |-> EmptyData]
    /\ exc = [r \in Runs |-> NoExc]
    /\ failedAt = [r \in Runs |-> "none"]
    /\ uncaught = [r \in Runs |-> NoExc]
    /\ response = [r \in Runs |-> <<>>]

RaiseAndRetry(r, e, to) ==
    /\ exc' = [exc EXCEPT ![r] = e]
    /\ failedAt' = [failedAt EXCEPT ![r] = pc[r]]
    /\ pc' = pc

\* an exception e raised at the current position; control goes to `to`
Raise(r, e, to) ==
    /\ exc' = [exc EXCEPT ![r] = e]
    /\ failedAt' = [failedAt EXCEPT ![r] = pc[r]]
    /\ pc' = [pc EXCEPT ![r] = to]

\* the HTTP trigger hands a request to scrape
Receive(r, bodies) ==
    /\ pc[r] = "idle"
    /\ \E b \in bodies : req' = [req EXCEPT ![r] = b]
    /\ pc' = [pc EXCEPT ![r] = "input"]
    /\ UNCHANGED <<loc, pw, browser, page, step, sessions, content, results_table,
                   data, exc, failedAt, uncaught, response>>

\* lines 41-62
ReadInput(r) ==
    /\ pc[r] = "input"
    /\ LET l == ReadFields(req[r])
       IN  IF req[r].kind # "object"
           THEN /\ response' = [response EXCEPT ![r] = Append(@, InvalidBodyResponse)]
                /\ pc' = [pc EXCEPT ![r] = "done"]
                /\ UNCHANGED <<loc, uncaught>>
           ELSE IF ~AllPresent(l)
           THEN /\ response' = [response EXCEPT ![r] = Append(@, MissingParamResponse)]
                /\ loc' = [loc EXCEPT ![r] = l]
                /\ pc' = [pc EXCEPT ![r] = "done"]
                /\ UNCHANGED uncaught
           ELSE IF ~PyInt(l.month_from_react).ok
           THEN /\ uncaught' = [uncaught EXCEPT ![r] = IntError(l.month_from_react)]
                /\ loc' = [loc EXCEPT ![r] = l]
                /\ pc' = [pc EXCEPT ![r] = "done"]
                /\ UNCHANGED response
           ELSE /\ loc' = [loc EXCEPT ![r] =
                              [l EXCEPT !.month_for_ssa = MonthForSsa(l.month_from_react)]]
                /\ pc' = [pc EXCEPT ![r] = "playwright"]
                /\ UNCHANGED <<response, uncaught>>
    /\ UNCHANGED <<req, pw, browser, page, step, sessions, content, results_table,
                   data, exc, failedAt>>

\* line 66: entering `with sync_playwright() as p`
StartPlaywright(r, errs) ==
    /\ pc[r] = "playwright"
    /\ \/ /\ pw' = [pw EXCEPT ![r] = "started"]
          /\ pc' = [pc EXCEPT ![r] = "launch"]
          /\ UNCHANGED <<exc, failedAt>>
       \/ /\ \E e \in Failures(StartCall, errs) : Raise(r, e, "except")
          /\ UNCHANGED pw
    /\ UNCHANGED <<req, loc, browser, page, step, sessions, content, results_table,
                   data, uncaught, response>>

\* line 67
Launch(r, errs) ==
    /\ pc[r] = "launch"
    /\ \/ LET id == NewBrowserId(sessions)
          IN  /\ sessions' = [sessions EXCEPT ![id] = NewSession(r)]
              /\ browser' = [browser EXCEPT ![r] = id]
              /\ pc' = [pc EXCEPT ![r] = "new_page"]
              /\ UNCHANGED <<exc, failedAt>>
       \/ /\ \E e \in Failures(LaunchCall, errs) : Raise(r, e, "with_exit")
          /\ UNCHANGED <<sessions, browser>>
    /\ UNCHANGED <<req, loc, pw, page, step, content, results_table, data, uncaught,
                   response>>

\* line 68
NewPage(r, errs) ==
    /\ pc[r] = "new_page"
    /\ \/ /\ sessions' = [sessions EXCEPT ![browser[r]].pages = @ + 1]
          /\ page' = [page EXCEPT ![r] = browser[r]]
          /\ pc' = [pc EXCEPT ![r] = "form"]
          /\ UNCHANGED <<exc, failedAt>>
       \/ /\ \E e \in Failures(NewPageCall, errs) : Raise(r, e, "with_exit")
          /\ UNCHANGED <<sessions, page>>
    /\ UNCHANGED <<req, loc, pw, browser, step, content, results_table, data,
                   uncaught, response>>

\* lines 69-94: the next call on the page completes
FormStep(r, docs) ==
    /\ pc[r] = "form"
    /\ LET script == Script(loc[r])
           call == script[step[r]]
       IN  /\ \E d \in (IF call.op = "wait_for_load_state" THEN docs ELSE {NoDoc}) :
                  sessions' = [sessions EXCEPT ![page[r]] = ApplyCall(@, call, d)]
           /\ IF step[r] < Len(script)
              THEN /\ step' = [step EXCEPT ![r] = @ + 1]
                   /\ UNCHANGED pc
              ELSE /\ pc' = [pc EXCEPT ![r] = "content"]
                   /\ UNCHANGED step
    /\ UNCHANGED <<req, loc, pw, browser, page, content, results_table, data, exc,
                   failedAt, uncaught, response>>

\* lines 69-94: the next call on the page raises
FormStepFails(r, errs) ==
    /\ pc[r] = "form"
    /\ \E e \in Failures(Script(loc[r])[step[r]], errs) : Raise(r, e, "with_exit")
    /\ UNCHANGED <<req, loc, pw, browser, page, step, sessions, content,
                   results_table, data, uncaught, response>>

\* line 97
Content(r, errs) ==
    /\ pc[r] = "content"
    /\ \/ /\ content' = [content EXCEPT ![r] = sessions[page[r]].doc]
          /\ pc' = [pc EXCEPT ![r] = "close"]
          /\ UNCHANGED <<exc, failedAt>>
       \/ /\ \E e \in Failures(ContentCall, errs) : Raise(r, e, "with_exit")
          /\ UNCHANGED content
    /\ UNCHANGED <<req, loc, pw, browser, page, step, sessions, results_table, data,
                   uncaught, response>>

\* line 98
Close(r, errs) ==
    /\ pc[r] = "close"
    /\ \/ /\ sessions' = [sessions EXCEPT ![browser[r]] = CloseBrowser(@)]
          /\ pc' = [pc EXCEPT ![r] = "with_exit"]
          /\ UNCHANGED <<exc, failedAt>>
       \/ /\ \E e \in Failures(CloseCall, errs) : Raise(r, e, "with_exit")
          /\ UNCHANGED sessions
    /\ UNCHANGED <<req, loc, pw, browser, page, step, content, results_table, data,
                   uncaught, response>>

\* leaving the with block of lines 66-98, normally or with an exception
WithExit(r) ==
    /\ pc[r] = "with_exit"
    /\ pw' = [pw EXCEPT ![r] = "stopped"]
    /\ sessions' = IF browser[r] = 0 THEN sessions
                   ELSE [sessions EXCEPT ![browser[r]] = StopPlaywright(@)]
    /\ pc' = [pc EXCEPT ![r] = IF exc[r] = NoExc THEN "locate" ELSE "except"]
    /\ UNCHANGED <<req, loc, browser, page, step, content, results_table, data, exc,
                   failedAt, uncaught, response>>

\* lines 101-114
Locate(r) ==
    /\ pc[r] = "locate"
    /\ LET all_tables == content[r]
           found == LocateResultsTable(all_tables)
       IN  /\ results_table' = [results_table EXCEPT ![r] = found]
           /\ IF found = 0
              THEN Raise(r, TableNotFound, "except")
              ELSE /\ pc' = [pc EXCEPT ![r] = "extract"]
                   /\ UNCHANGED <<exc, failedAt>>
    /\ UNCHANGED <<req, loc, pw, browser, page, step, sessions, content, data,
                   uncaught, response>>

\* lines 117-139
Extract(r) ==
    /\ pc[r] = "extract"
    /\ LET rows == content[r][results_table[r]]
           res == ExtractRecords(rows)
       IN  /\ data' = [data EXCEPT ![r] = res.data]
           /\ IF res.exc # NoExc
              THEN Raise(r, res.exc, "except")
              ELSE /\ pc' = [pc EXCEPT ![r] = "respond"]
                   /\ UNCHANGED <<exc, failedAt>>
    /\ UNCHANGED <<req, loc, pw, browser, page, step, sessions, content,
                   results_table, uncaught, response>>

\* lines 141-146
Respond(r) ==
    /\ pc[r] = "respond"
    /\ response' = [response EXCEPT ![r] = Append(@, SuccessResponse(data[r]))]
    /\ pc' = [pc EXCEPT ![r] = "done"]
    /\ UNCHANGED <<req, loc, pw, browser, page, step, sessions, content,
                   results_table, data, exc, failedAt, uncaught>>

\* lines 148-155
Except(r) ==
    /\ pc[r] = "except"
    /\ response' = [response EXCEPT ![r] = Append(@, ErrorResponse(exc[r]))]
    /\ pc' = [pc EXCEPT ![r] = "done"]
    /\ UNCHANGED <<req, loc, pw, browser, page, step, sessions, content,
                   results_table, data, exc, failedAt, uncaught>>

\* one step of invocation r
Scrape(r, bodies, docs, errs) ==
    \/ Receive(r, bodies)
    \/ ReadInput(r)
    \/ StartPlaywright(r, errs)
    \/ Launch(r, errs)
    \/ NewPage(r, errs)
    \/ FormStep(r, docs)
    \/ FormStepFails(r, errs)
    \/ Content(r, errs)
    \/ Close(r, errs)
    \/ WithExit(r)
    \/ Locate(r)
    \/ Extract(r)
    \/ Respond(r)
    \/ Except(r)

\* a single invocation, over every enumerated request and library error
Next == Scrape(1, Bodies, PageDocs, Errors)

Spec == Init /\ [][Next]_vars

\* a single invocation, over every enumerated result page
NextDocs == Scrape(1, FewBodies, Docs, FewErrors)

SpecDocs == Init /\ [][NextDocs]_vars

\* NumRuns invocations interleaving
NextConc == \E r \in Runs : Scrape(r, FewBodies, FewDocs, FewErrors)

SpecConc == Init /\ [][NextConc]_vars

\* a single invocation, over every enumerated age cell
NextAge == Scrape(1, FewBodies, AgeDocs, FewErrors)

SpecAge == Init /\ [][NextAge]_vars

(***************************************************************************)
(* Properties.                                                             *)
(***************************************************************************)
Ended(r) == pc[r] = "done"

\* the run ended with exactly one response, of this status
Answered(r, status) ==
    Ended(r) /\ Len(response[r]) = 1 /\ response[r][1].status_code = status

\* the run passed the input stage (lines 41-62) and entered the pipeline
Passed(r) == loc[r].month_for_ssa # <<>>

\* the rows of a table after the first that yield a point when every LE cell
\* converts: three cells, the first an age parse_age_string accepts
ParsedRows(rows) ==
    SelectSeq(SubSeq(rows, 2, Len(rows)),
              LAMBDA row : Len(row.td) = 3 /\ parse_age_string(Strip(row.td[1])).ok)

RowPoint(row) ==
    [atAge |-> parse_age_string(Strip(row.td[1])).val,
     additionalLE |-> PyFloat(Strip(row.td[2])).val,
     totalLE |-> PyFloat(Strip(row.td[3])).val]

LocatedRows(r) == content[r][results_table[r]]

PointsOf(d) == <<d.initial>> \o d.future

\* C1: every run that launched a browser has, when it ends, released that
\* browser exactly once and holds it open no longer, whether the run ended in
\* success or in a failure at any call or stage; no browser is ever released
\* twice.
C1_SessionReleasedOnce ==
    /\ \A id \in Runs : sessions[id].released <= 1
    /\ \A r \in Runs :
          (Ended(r) /\ browser[r] # 0)
              => (sessions[browser[r]].released = 1 /\ ~sessions[browser[r]].open)

\* a run that timed out in the middle of the form ended with its browser released
C1_Witness ==
    /\ Ended(1) /\ browser[1] # 0
    /\ failedAt[1] = "form" /\ exc[1].type = "TimeoutError" /\ step[1] = 7
    /\ sessions[browser[1]].released = 1

\* a request body of the kinds C2 names: not JSON, a key missing, or a month
\* that is no integer
Rejectable(b) ==
    \/ b.kind = "text"
    \/ b.kind = "object" /\ \E k \in Keys : b.fields[k].t = "absent"
    \/ b.kind = "object" /\ b.fields["month"].t = "str" /\ ~PyInt(b.fields["month"].s).ok

\* C2 (as claimed): a run whose request body is not JSON, or lacks one of
\* month, day, year, sex, or carries a month that is not an integer, ends with
\* exactly one response, of status 400.
C2_RejectedWith400 ==
    \A r \in Runs : (Ended(r) /\ Rejectable(req[r])) => Answered(r, 400)

\* C3: every run that passed the input stage returns at most one response and
\* none before it ends; when it ends it has returned exactly one: 200 with the
\* JSON encoding of data when no stage raised (the page was submitted, a table
\* located, an initial record present), and 500 with a JSON object holding
\* only a message when a stage raised.
C3_OneResponsePerRun ==
    \A r \in Runs :
        /\ Len(response[r]) <= 1
        /\ (Passed(r) /\ ~Ended(r)) => response[r] = <<>>
        /\ (Passed(r) /\ Ended(r)) =>
              /\ Len(response[r]) = 1
              /\ uncaught[r] = NoExc
              /\ IF failedAt[r] = "none"
                 THEN /\ response[r][1].status_code = 200
                      /\ response[r][1].body = JsonData(data[r])
                      /\ sessions[browser[r]].submitted
                      /\ results_table[r] # 0
                      /\ data[r].initial # <<>>
                 ELSE /\ response[r][1].status_code = 500
                      /\ DOMAIN response[r][1].body = {"message"}
                      /\ exc[r] # NoExc

\* a run whose extraction raised was answered 500
C3_Witness ==
    /\ Passed(1) /\ failedAt[1] = "extract"
    /\ Answered(1, 500)
    /\ response[1][1].body.message = <<"An internal error occurred: ">> \o FloatError(T_x).text

\* the month of a request body as an integer
MonthOf(b) ==
    IF b.fields["month"].t = "int" THEN b.fields["month"].n
    ELSE PyInt(b.fields["month"].s).val

\* C4: once a value is selected on the month control, it reads as the integer
\* month - 1 for every request month in 1..12, and the values selected on the
\* sex, day and year controls are the texts of the request's sex, day and year.
C4_MonthZeroBased ==
    \A r \in Runs :
        (page[r] # 0 /\ Passed(r) /\ MonthOf(req[r]) \in Months) =>
            LET form == sessions[page[r]].form
            IN  /\ form[MonthControl] # <<>> =>
                      /\ PyInt(form[MonthControl]).ok
                      /\ PyInt(form[MonthControl]).val = MonthOf(req[r]) - 1
                /\ form[SexControl] \in {<<>>, PyStr(Get(req[r], "sex"))}
                /\ form[DayControl] \in {<<>>, PyStr(Get(req[r], "day"))}
                /\ form[YearControl] \in {<<>>, PyStr(Get(req[r], "year"))}

\* month 3 was selected as "2", day 15 and year 1960 as themselves
C4_Witness ==
    /\ req[1] = Profile(3) /\ page[1] # 0
    /\ sessions[page[1]].form =
          [c \in Controls |-> CASE c = SexControl -> <<"f">>
                                [] c = MonthControl -> <<"2">>
                                [] c = DayControl -> <<"1", "5">>
                                [] OTHER -> <<"1", "9", "6", "0">>]

\* C5: in every run answered 200, the points of the rows of the located table
\* after its first row that have three cells and a parsable age are, in row
\* order, `initial` followed by `future`: none lost, duplicated or reordered.
C5_InitialThenFuture ==
    \A r \in Runs :
        Answered(r, 200) =>
            LET ps == ParsedRows(LocatedRows(r))
            IN  /\ ps # <<>>
                /\ PointsOf(data[r]) = [i \in DOMAIN ps |-> RowPoint(ps[i])]
                /\ response[r][1].body.initial = JsonPoint(RowPoint(ps[1]))
                /\ Len(response[r][1].body.future) = Len(ps) - 1

\* a header and three valid rows gave initial = row 1, future = [row 2, row 3]
C5_Witness ==
    /\ Answered(1, 200)
    /\ Len(LocatedRows(1)) = 4
    /\ Len(ParsedRows(LocatedRows(1))) = 3
    /\ data[1].initial = RowPoint(LocatedRows(1)[2])
    /\ data[1].future = <<RowPoint(LocatedRows(1)[3]), RowPoint(LocatedRows(1)[4])>>
    /\ LocatedRows(1)[2] # LocatedRows(1)[3] /\ LocatedRows(1)[3] # LocatedRows(1)[4]

\* C6: a run answered 200 has a non-empty `initial`; a run whose located table
\* has no parsable row ends with the missing-initial failure, answered 500; a
\* run whose located table has exactly one parsable row, with LE cells that
\* convert, is answered 200 with an empty `future`.
C6_InitialAlwaysPresent ==
    \A r \in Runs :
        /\ Answered(r, 200) =>
              /\ data[r].initial # <<>>
              /\ response[r][1].body.initial # <<>>
        /\ (Ended(r) /\ results_table[r] # 0) =>
              LET ps == ParsedRows(LocatedRows(r))
              IN  /\ ps = <<>> =>
                        /\ Answered(r, 500)
                        /\ exc[r] = NoInitial
                        /\ response[r][1] = ErrorResponse(NoInitial)
                  /\ ( /\ Len(ps) = 1
                       /\ PyFloat(ps[1].td[2]).ok
                       /\ PyFloat(ps[1].td[3]).ok ) =>
                        /\ Answered(r, 200)
                        /\ response[r][1].body.future = <<>>

\* a table whose only data rows were skipped ended the run with the
\* missing-initial failure
C6_Witness ==
    /\ Ended(1) /\ results_table[1] # 0
    /\ Len(LocatedRows(1)) = 3
    /\ ParsedRows(LocatedRows(1)) = <<>>
    /\ response[1] = <<ErrorResponse(NoInitial)>>

IsFinite(x) == x.k = "fin"

NonNegative(x) == (x.k = "fin" /\ x.v >= 0) \/ (x.k = "inf" /\ x.v > 0)

\* x < y on floats (every comparison with nan is false)
Less(x, y) ==
    CASE x.k = "nan" \/ y.k = "nan" -> FALSE
      [] x.k = "inf" /\ y.k = "inf" -> x.v < y.v
      [] x.k = "inf" -> x.v < 0
      [] y.k = "inf" -> y.v > 0
      [] OTHER -> x.v < y.v

StrictlyIncreasing(ages) ==
    \A i \in 1..(Len(ages) - 1) : Less(ages[i], ages[i + 1])

\* C7 (as claimed): in every run answered 200 the three fields of every point
\* are finite and non-negative and the atAge values of `future` are strictly
\* increasing.
C7_PointsWellFormed ==
    \A r \in Runs :
        Answered(r, 200) =>
            /\ \A i \in DOMAIN PointsOf(data[r]) :
                  LET p == PointsOf(data[r])[i]
                  IN  \A x \in {p.atAge, p.additionalLE, p.totalLE} :
                          IsFinite(x) /\ NonNegative(x)
            /\ StrictlyIncreasing([i \in DOMAIN data[r].future |-> data[r].future[i].atAge])

\* C7 (amended): in every run answered 200 the atAge of every point is a
\* non-negative number, never NaN, and the atAge values of `initial` and
\* `future` are those of the parsable rows of the located table in row order.
C7_AgesNonNegativeInRowOrder ==
    \A r \in Runs :
        Answered(r, 200) =>
            LET ps == ParsedRows(LocatedRows(r))
                points == PointsOf(data[r])
            IN  /\ \A i \in DOMAIN points : NonNegative(points[i].atAge)
                /\ Len(points) = Len(ps)
                /\ \A i \in DOMAIN points :
                      points[i].atAge = parse_age_string(Strip(ps[i].td[1])).val

\* a result with a negative and a NaN life expectancy, and a later age below
\* an earlier one
C7_Witness ==
    /\ Answered(1, 200)
    /\ Len(data[1].future) = 2
    /\ data[1].future[2].additionalLE.v < 0
    /\ data[1].future[2].totalLE = NaN
    /\ Less(data[1].future[2].atAge, data[1].future[1].atAge)

\* the state of the form driver in which call i of Script is made
StateAt(i) ==
    CASE i = 1 -> "Start"
      [] i \in 2..3 -> "PageLoaded"
      [] i \in 4..5 -> "SexSelected"
      [] i \in 6..8 -> "MonthSelected"
      [] i \in 9..10 -> "DaySelected"
      [] i = 11 -> "YearSelected"
      [] OTHER -> "Submitted"

\* the stage and, within the form driver, the state in which a run failed
FailurePoint(r) ==
    CASE failedAt[r] = "form" -> <<"AutomationFailure", StateAt(step[r])>>
      [] failedAt[r] \in {"playwright", "launch", "new_page"} -> <<"AutomationFailure", "Start">>
      [] failedAt[r] \in {"content", "close"} -> <<"AutomationFailure", "ResultLoaded">>
      [] failedAt[r] = "locate" -> <<"NotFound", "">>
      [] OTHER -> <<"ExtractionFailure", "">>

\* C8 (as claimed): two runs that failed in different stages, or in different
\* states of the form driver, are never answered with the same error.
C8_FailuresDistinguished ==
    \A r, q \in Runs :
        ( /\ Ended(r) /\ Ended(q)
          /\ failedAt[r] # "none" /\ failedAt[q] # "none"
          /\ FailurePoint(r) # FailurePoint(q) )
            => response[r] # response[q]

NoMarkerIn(doc) == \A i \in DOMAIN doc : ~Contains(TableText(doc[i]), T_AtAge)

\* the run has executed the table location of lines 101-114
Located(r) ==
    /\ pc[r] \in {"extract", "respond", "except", "done"}
    /\ failedAt[r] \in {"none", "locate", "extract"}

\* C9: once a run has searched a page none of whose tables contains "At Age",
\* no table is chosen, nothing is extracted, the failure is the not-found
\* error, and the run's only response is 500 with that error's message.
C9_NotFoundWhenNoMarker ==
    \A r \in Runs :
        (Located(r) /\ NoMarkerIn(content[r])) =>
            /\ results_table[r] = 0
            /\ data[r] = EmptyData
            /\ exc[r] = TableNotFound /\ failedAt[r] = "locate"
            /\ Ended(r) => response[r] = <<ErrorResponse(TableNotFound)>>
            /\ ~Ended(r) => response[r] = <<>>

\* a page with tables, none with the marker, one of them holding a valid data
\* row, was answered with the not-found error
C9_Witness ==
    /\ Ended(1) /\ Located(1)
    /\ Len(content[1]) = 2 /\ NoMarkerIn(content[1])
    /\ response[1] = <<ErrorResponse(TableNotFound)>>

\* what a run answers when run alone on its request, the error raised to it
\* and the page served to it
AloneResponse(r) ==
    IF exc[r] # NoExc THEN <<ErrorResponse(exc[r])>>
    ELSE <<SuccessResponse(ExtractRecords(content[r][LocateResultsTable(content[r])]).data)>>

\* C10: whatever the interleaving, no two runs hold the same browser or page;
\* a run's browser and page are ones it launched itself; the calls its page
\* received are a prefix of its own script, with its own values; the HTML it
\* captured is the document of its own page; and its response is the one it
\* gives when run alone.
C10_RunsIndependent ==
    \A r \in Runs :
        /\ \A q \in Runs \ {r} :
              /\ browser[r] # 0 => browser[r] # browser[q]
              /\ page[r] # 0 => page[r] # page[q]
        /\ browser[r] # 0 => sessions[browser[r]].owner = r
        /\ page[r] \in {0, browser[r]}
        /\ page[r] # 0 =>
              LET s == sessions[page[r]]
              IN  /\ Len(s.calls) <= Len(Script(loc[r]))
                  /\ s.calls = SubSeq(Script(loc[r]), 1, Len(s.calls))
                  /\ s.pages = 1
                  /\ content[r] \in {NoDoc, s.doc}
        /\ Ended(r) => response[r] = AloneResponse(r)

\* two runs with a browser each, one answered 200 and one answered 500
C10_Witness ==
    /\ browser[1] # 0 /\ browser[2] # 0
    /\ Answered(1, 200) /\ Answered(2, 500)
    /\ failedAt[2] = "form"
    /\ sessions[browser[1]].released = 1 /\ sessions[browser[2]].released = 1

\* the states of the form driver, in the order of its state machine
DriverOrder ==
    <<"Start", "PageLoaded", "SexSelected", "MonthSelected", "DaySelected",
      "YearSelected", "Submitted", "ResultLoaded">>

\* the calls that are interactions: every call but the waits that precede one
Interactions(calls) ==
    SelectSeq(calls, LAMBDA c : c.op \notin {"wait_for_selector", "wait_for_timeout"})

\* the state of the form driver that a completed interaction reaches
Reaches(call) ==
    CASE call.op = "goto" -> "PageLoaded"
      [] call.op = "select_option" /\ call.target = SexControl -> "SexSelected"
      [] call.op = "select_option" /\ call.target = MonthControl -> "MonthSelected"
      [] call.op = "select_option" /\ call.target = DayControl -> "DaySelected"
      [] call.op = "select_option" /\ call.target = YearControl -> "YearSelected"
      [] call.op = "click" /\ call.target = SubmitControl -> "Submitted"
      [] call.op = "wait_for_load_state" -> "ResultLoaded"
      [] OTHER -> "Unknown"

\* the states a page has been driven through, from the calls it completed
Visited(s) ==
    <<"Start">> \o [i \in DOMAIN Interactions(s.calls) |-> Reaches(Interactions(s.calls)[i])]

\* the run has executed page.content() of line 97
Captured(r) ==
    /\ Passed(r)
    /\ pc[r] \in {"close", "with_exit", "locate", "extract", "respond", "except", "done"}
    /\ failedAt[r] \in {"none", "close", "locate", "extract"}

\* C11: the states the form driver of a run has visited are always an initial
\* part of Start, PageLoaded, SexSelected, MonthSelected, DaySelected,
\* YearSelected, Submitted, ResultLoaded, none skipped, repeated or out of
\* order; the values the form holds are those of the states visited; and the
\* page HTML is captured only when ResultLoaded has been reached.
C11_DriverOrder ==
    \A r \in Runs :
        /\ page[r] # 0 =>
              LET s == sessions[page[r]]
                  v == Visited(s)
              IN  /\ Len(v) <= Len(DriverOrder)
                  /\ v = SubSeq(DriverOrder, 1, Len(v))
                  /\ s.loaded <=> Len(v) >= 2
                  /\ s.form[SexControl] # <<>> <=> Len(v) >= 3
                  /\ s.form[MonthControl] # <<>> <=> Len(v) >= 4
                  /\ s.form[DayControl] # <<>> <=> Len(v) >= 5
                  /\ s.form[YearControl] # <<>> <=> Len(v) >= 6
                  /\ s.submitted <=> Len(v) >= 7
        /\ Captured(r) => page[r] # 0 /\ Visited(sessions[page[r]]) = DriverOrder
        /\ content[r] # NoDoc => Captured(r)

\* a run that went through every state and then captured a page with a table
C11_Witness ==
    /\ pc[1] = "close" /\ content[1] # NoDoc
    /\ Visited(sessions[page[1]]) = DriverOrder
    /\ Len(sessions[page[1]].calls) = 12

\* the calls the page of run r has completed
CallsOf(r) == IF page[r] = 0 THEN <<>> ELSE sessions[page[r]].calls

\* C12: once a call of the form driver, the table location or the extraction
\* of a run has raised, the run only leaves the with block and answers: it
\* makes no further call on the page, captures, locates and extracts nothing
\* more, and keeps the failure it has.  No call is made twice: the position in
\* the script never goes back, a call that completed is followed by the next
\* one, and the form driver is never entered again.
C12_ShortCircuits ==
    [][\A r \in Runs :
          /\ failedAt[r] # "none" =>
                /\ pc[r] \in {"with_exit", "except", "done"}
                /\ pc'[r] \in {"with_exit", "except", "done"}
                /\ pc[r] = "except" => pc'[r] # "with_exit"
                /\ pc[r] = "done" => pc'[r] = "done"
                /\ step'[r] = step[r]
                /\ browser'[r] = browser[r] /\ page'[r] = page[r]
                /\ CallsOf(r)' = CallsOf(r)
                /\ content'[r] = content[r]
                /\ results_table'[r] = results_table[r]
                /\ data'[r] = data[r]
                /\ exc'[r] = exc[r] /\ failedAt'[r] = failedAt[r]
          /\ step'[r] \in {step[r], step[r] + 1}
          /\ CallsOf(r)' \in {CallsOf(r), Append(CallsOf(r), Script(loc[r])[step[r]])}
          /\ (pc[r] = "form" /\ pc'[r] = "form" /\ exc'[r] = exc[r]) =>
                (step'[r] = step[r] <=> CallsOf(r)' = CallsOf(r))
          /\ (pc[r] \notin {"new_page", "form"}) => pc'[r] # "form"
          /\ \A i, j \in DOMAIN CallsOf(r) : i # j => CallsOf(r)[i] # CallsOf(r)[j]
      ]_vars

\* a run whose fifth call raised ended with four completed calls, nothing
\* captured, located or extracted, and one 500 response
C12_Witness ==
    /\ Ended(1) /\ failedAt[1] = "form" /\ step[1] = 5
    /\ Len(CallsOf(1)) = 4
    /\ content[1] = NoDoc /\ results_table[1] = 0 /\ data[1] = EmptyData
    /\ Answered(1, 500)

\* call i of calls acts on a control: a selection or the submit click
ActsOnControl(calls, i) == calls[i].op \in {"select_option", "click"}

\* an earlier call of calls waited for the control that call i acts on, with a
\* bounded timeout
WaitedBefore(calls, i) ==
    \E j \in 1..(i - 1) :
        /\ calls[j].op = "wait_for_selector"
        /\ calls[j].target = calls[i].target
        /\ calls[j].timeout > 0

\* C13 (as claimed): every call that acts on a control (the selections of sex,
\* month, day and year and the submit click) comes, among the calls of its
\* run, after a wait with a bounded timeout for that same control.
C13_EveryStepWaited ==
    \A r \in Runs :
        \A i \in DOMAIN CallsOf(r) :
            ActsOnControl(CallsOf(r), i) => WaitedBefore(CallsOf(r), i)

\* C13 (amended): every selection (sex, month, day, year) comes directly after
\* a wait with a bounded timeout for its own control; the submit click comes
\* directly after the selection of the year, and no wait for the submit
\* control is made before it.
C13_SelectionsWaited ==
    \A r \in Runs :
        LET calls == CallsOf(r)
        IN  \A i \in DOMAIN calls :
                /\ calls[i].op = "select_option" =>
                      /\ i > 1
                      /\ calls[i - 1].op = "wait_for_selector"
                      /\ calls[i - 1].target = calls[i].target
                      /\ calls[i - 1].timeout > 0
                      /\ calls[i].target \in Controls
                /\ calls[i].op = "click" =>
                      /\ calls[i].target = SubmitControl
                      /\ i > 1
                      /\ calls[i - 1].op = "select_option"
                      /\ calls[i - 1].target = YearControl
                      /\ ~WaitedBefore(calls, i)

\* a page on which the four selections and the submit click were made
C13_Witness ==
    /\ page[1] # 0
    /\ sessions[page[1]].submitted
    /\ \A c \in Controls : sessions[page[1]].form[c] # <<>>
    /\ \E i \in DOMAIN CallsOf(1) : CallsOf(1)[i].op = "click"

\* float() rejects the additional-LE or the total-LE cell of the row
BadLE(row) == ~PyFloat(Strip(row.td[2])).ok \/ ~PyFloat(Strip(row.td[3])).ok

\* the first cell of the row that float() rejects
FirstBadCell(row) ==
    IF ~PyFloat(Strip(row.td[2])).ok THEN Strip(row.td[2]) ELSE Strip(row.td[3])

\* the run has executed the extraction of lines 117-139
Extracted(r) ==
    /\ results_table[r] # 0
    /\ pc[r] \in {"respond", "except", "done"}

RemoveRow(rows, i) == SubSeq(rows, 1, i - 1) \o SubSeq(rows, i + 1, Len(rows))

AgeFails(row) == Len(row.td) = 3 /\ ~parse_age_string(Strip(row.td[1])).ok

\* a row of the kinds C15 names: not three cells, or three cells with an age
\* that fails normalization and LE cells that convert
SkippedRow(row) == Len(row.td) # 3 \/ (AgeFails(row) /\ ~BadLE(row))

\* what the extraction of a run came to: the exception it raised, if any, and
\* the data it built
Outcome(r) == [exc |-> exc[r], data |-> data[r]]

\* C15: for every row after the first of the located table that has not three
\* cells, or has an age that fails normalization with LE cells that convert,
\* the outcome of the run's extraction (its data, and its failure if it has
\* one) is the outcome of extracting the same table without that row.
C15_SkippedRowsLeaveResultUnchanged ==
    \A r \in Runs :
        Extracted(r) =>
            LET rows == LocatedRows(r)
            IN  \A i \in 2..Len(rows) :
                    SkippedRow(rows[i]) => Outcome(r) = ExtractRecords(RemoveRow(rows, i))

\* a table with a one-cell row, a row with an unparsable age and valid LE
\* cells, and a valid row after them was answered 200 with the valid row as
\* `initial`
C15_Witness ==
    /\ Extracted(1) /\ Answered(1, 200)
    /\ Len(LocatedRows(1)) = 4
    /\ Len(LocatedRows(1)[2].td) = 1
    /\ AgeFails(LocatedRows(1)[3]) /\ ~BadLE(LocatedRows(1)[3])
    /\ data[1] = [initial |-> RowPoint(LocatedRows(1)[4]), future |-> <<>>]

\* C19: a row after the first of the located table that has three cells and
\* an age that fails normalization is skipped even when float() rejects one
\* of its LE cells: the outcome of the run's extraction is the outcome of
\* extracting the table without that row, and a conversion error the run
\* raised is that of a row whose age was parsed.
C19_AgeCheckedBeforeLE ==
    \A r \in Runs :
        Extracted(r) =>
            LET rows == LocatedRows(r)
                ps == ParsedRows(rows)
            IN  /\ \A i \in 2..Len(rows) :
                      (AgeFails(rows[i]) /\ BadLE(rows[i])) =>
                          Outcome(r) = ExtractRecords(RemoveRow(rows, i))
                /\ (\A i \in DOMAIN ps : ~BadLE(ps[i])) =>
                      exc[r] \in {NoExc, NoInitial}

\* a table whose first data row has an unparsable age and a bad LE cell,
\* followed by a valid row, was answered 200
C19_Witness ==
    /\ Extracted(1) /\ Answered(1, 200)
    /\ Len(LocatedRows(1)) >= 3
    /\ AgeFails(LocatedRows(1)[2]) /\ BadLE(LocatedRows(1)[2])
    /\ data[1].initial = RowPoint(LocatedRows(1)[3])

\* the text of a table holds the marker phrase
MarkerIn(table) == Contains(TableText(table), T_AtAge)

\* C16: once a run has searched its page, the table it chose is the first one
\* in document order whose text contains "At Age": it contains the marker and
\* no table before it does; and no table is chosen only when none contains
\* the marker.
C16_FirstTableWithMarker ==
    \A r \in Runs :
        Located(r) =>
            LET doc == content[r]
                k == results_table[r]
            IN  /\ k \in 0..Len(doc)
                /\ k # 0 => MarkerIn(doc[k]) /\ \A j \in 1..(k - 1) : ~MarkerIn(doc[j])
                /\ k = 0 => \A j \in DOMAIN doc : ~MarkerIn(doc[j])

\* of three tables only the second contains the marker, and the second was
\* chosen
C16_Witness ==
    /\ Located(1) /\ Len(content[1]) = 3
    /\ ~MarkerIn(content[1][1]) /\ MarkerIn(content[1][2]) /\ ~MarkerIn(content[1][3])
    /\ results_table[1] = 2
    /\ Answered(1, 200)

\* the run extracted a table of a header and one three-cell data row
OneRowExtracted(r) ==
    /\ Extracted(r)
    /\ Len(LocatedRows(r)) = 2
    /\ Len(LocatedRows(r)[2].td) = 3

\* C17: the age of a table's only data row is decided by the unsigned numbers
\* left in the age cell once its letters are removed.  float() accepts each
\* of them.  One number N gives atAge = N; two numbers X and Y give
\* atAge = X + Y/12; none, or three or more, give no age: the row is skipped,
\* nothing is raised by the normalization, and the run fails only for want of
\* an initial record.
C17_AgeByNumberCount ==
    \A r \in Runs :
        OneRowExtracted(r) =>
            LET age_str == Strip(LocatedRows(r)[2].td[1])
                nums == FindNumbers(RemoveLetters(age_str))
            IN  /\ \A i \in DOMAIN nums : PyFloat(nums[i]).ok
                /\ Len(nums) = 1 =>
                      /\ exc[r] = NoExc
                      /\ data[r].initial.atAge = Fin(DecimalVal(nums[1]))
                /\ Len(nums) = 2 =>
                      /\ exc[r] = NoExc
                      /\ data[r].initial.atAge.k = "fin"
                      /\ 12 * data[r].initial.atAge.v =
                            12 * DecimalVal(nums[1]) + DecimalVal(nums[2])
                /\ Len(nums) \notin {1, 2} =>
                      /\ exc[r] = NoInitial /\ failedAt[r] = "extract"
                      /\ data[r] = EmptyData

\* an age cell with three numbers gave no age: the run ended for want of an
\* initial record
C17_Witness ==
    /\ OneRowExtracted(1) /\ Ended(1)
    /\ Len(FindNumbers(RemoveLetters(LocatedRows(1)[2].td[1]))) = 3
    /\ response[1] = <<ErrorResponse(NoInitial)>>

\* a request body that the input stage of lines 41-62 does not let through:
\* no JSON object, a field whose text is empty, or a month int() rejects
StoppedAtInput(b) ==
    \/ b.kind # "object"
    \/ \E k \in Keys : PyStr(Get(b, k)) = <<>>
    \/ ~PyInt(PyStr(Get(b, "month"))).ok

\* C18: a run whose request is turned down or fails in the input stage never
\* starts the driver, launches no browser, opens no page and makes no call;
\* and a run that has started the driver or holds a browser has read its four
\* fields as non-empty texts and converted the month.
C18_NoBrowserBeforeInputPassed ==
    \A r \in Runs :
        /\ (pc[r] # "idle" /\ StoppedAtInput(req[r])) =>
              /\ pw[r] = "none" /\ browser[r] = 0 /\ page[r] = 0 /\ step[r] = 1
              /\ \A id \in Runs : sessions[id].owner # r
              /\ pc[r] \in {"input", "done"}
              /\ Ended(r) =>
                    \/ Answered(r, 400) /\ uncaught[r] = NoExc
                    \/ response[r] = <<>> /\ uncaught[r] # NoExc
        /\ (pw[r] # "none" \/ browser[r] # 0 \/ page[r] # 0) =>
              /\ ~StoppedAtInput(req[r])
              /\ \A k \in {"month_from_react", "day", "year", "sex"} : loc[r][k] # <<>>
              /\ PyInt(loc[r].month_for_ssa).ok
              /\ PyInt(loc[r].month_for_ssa).val = PyInt(loc[r].month_from_react).val - 1

\* a run whose month was no integer ended in the input stage with no browser
\* launched
C18_Witness ==
    /\ Ended(1) /\ uncaught[1] = IntError(T_abc)
    /\ pw[1] = "none" /\ browser[1] = 0
    /\ \A id \in Runs : sessions[id] = Unused
=============================================================================
